---- MODULE Spec2Model ----
(***************************************************************************)
(* rydiqule/sensor_solution.py: the Solution bunch object.                 *)
(*                                                                         *)
(* A Solution is a dict subclass whose instance __dict__ is rebound to the *)
(* dict itself by __init__.  The model keeps, for every container, the     *)
(* dict items (key view) and the object __dict__ (attribute view), the     *)
(* latter being either the dict itself (alias) or a separate mapping.      *)
(* Arrays live on a heap so that sharing between containers is visible.    *)
(* Floating point values are modelled by exact rationals.                  *)
(***************************************************************************)
EXTENDS Integers, Sequences, FiniteSets, TLC

VARIABLES store, heap, out

vars == <<store, heap, out>>

(***************************************************************************)
(* Bounds of the model.                                                    *)
(***************************************************************************)
\* basis sizes n of the solved systems range over 2..MaxBasis
MaxBasis == 3
\* get_solution_element is tried with idx up to Over past either end of the axis
Over == 2

(***************************************************************************)
(* Python values.                                                          *)
(***************************************************************************)
Absent == [t |-> "absent", n |-> 0, ij |-> <<>>, ref |-> ""]
None == [t |-> "None", n |-> 0, ij |-> <<>>, ref |-> ""]
Num(k) == [t |-> "float", n |-> k, ij |-> <<>>, ref |-> ""]
Tuple(p) == [t |-> "tuple", n |-> 0, ij |-> p, ref |-> ""]
NdArray(r) == [t |-> "ndarray", n |-> 0, ij |-> <<>>, ref |-> r]

\* the two container slots: C is built by the constructor, D is a copy of C;
\* the field by of a container records what made it
Containers == {"C", "D"}
\* heap cells are named after the container whose creation allocated them
Refs == Containers
Free == <<>>
NoObject == [items |-> <<>>, dict |-> <<>>, alias |-> FALSE, by |-> ""]

\* attributes annotated on the class, and one name that is not ("note")
Fields == {"rho", "kappa", "probe_tuple", "probe_freq", "probe_rabi", "cell_length", "note"}
EmptyDict == [f \in Fields |-> Absent]

(***************************************************************************)
(* dict / object protocol of a Solution instance.                          *)
(***************************************************************************)
\* the mapping that attribute access reads and writes (object.__dict__)
InstanceDict(self) == IF self.alias THEN self.items ELSE self.dict

HasKey(self, f) == self.items[f] # Absent
HasAttr(self, f) == InstanceDict(self)[f] # Absent

\* self[f]; callers test HasKey first (KeyError otherwise)
GetItem(self, f) == self.items[f]
\* self.f; callers test HasAttr first (AttributeError otherwise)
GetAttr(self, f) == InstanceDict(self)[f]

\* self[f] = v
SetItemObj(self, f, v) == [self EXCEPT !.items[f] = v]
\* self.f = v
SetAttrObj(self, f, v) ==
    IF self.alias
    THEN [self EXCEPT !.items[f] = v]
    ELSE [self EXCEPT !.dict[f] = v]

\* Solution.__init__ without the rebinding of __dict__
SolutionNoAlias(kwargs) == [items |-> kwargs, dict |-> EmptyDict, alias |-> FALSE, by |-> "Solution"]
\* Solution(**kwargs): dict.__init__(**kwargs); self.__dict__ = self
Solution(kwargs) == [items |-> kwargs, dict |-> EmptyDict, alias |-> TRUE, by |-> "Solution"]

\* Solution.__new__(Solution) as called by copy._reconstruct: __init__ does not
\* run, so the new object is an empty dict with its own empty __dict__
NewObj(by) == [items |-> EmptyDict, dict |-> EmptyDict, alias |-> FALSE, by |-> by]

\* d.update(state)
Update(d, state) == [f \in Fields |-> IF state[f] # Absent THEN state[f] ELSE d[f]]

\* copy.copy(x): __reduce_ex__ gives state = x.__dict__ and the dict items;
\* _reconstruct does y.__dict__.update(state), then y[k] = v for every item
copy(x) ==
    LET y == NewObj("copy")
        y1 == [y EXCEPT !.dict = Update(y.dict, InstanceDict(x))]
    IN [y1 EXCEPT !.items = Update(y1.items, x.items)]

\* deepcopy of one value: arrays are cloned into cell r, immutables are shared
DeepValue(v, r) == IF v.t = "ndarray" THEN NdArray(r) ELSE v

\* a deepcopy that hands out the arrays of the original
DeepCopyShared(x, r) == [copy(x) EXCEPT !.by = "deepcopy"]
\* copy.deepcopy(x) for x built by the constructor: memo[id(x)] = y is set
\* before the state is copied and the state IS x, so deepcopy(state) is y
\* itself, still empty: y.__dict__.update(y) adds nothing.  Then
\* y[k] = deepcopy(v) for every item.
deepcopy(x, r) ==
    LET y == NewObj("deepcopy")
        state == IF x.alias THEN y.items
                 ELSE [f \in Fields |-> DeepValue(x.dict[f], r)]
        y1 == [y EXCEPT !.dict = Update(y.dict, state)]
    IN [y1 EXCEPT !.items = Update(y1.items, [f \in Fields |-> DeepValue(x.items[f], r)])]

\* the heap after deepcopy of x into cell r
DeepHeap(h, x, r) ==
    IF x.items["rho"].t = "ndarray"
    THEN [h EXCEPT ![r] = h[x.items["rho"].ref]]
    ELSE h

(***************************************************************************)
(* Exact rationals standing for the floating point numbers of the code.    *)
(* Products cancel common factors before multiplying.                      *)
(***************************************************************************)
Abs(a) == IF a < 0 THEN -a ELSE a

RECURSIVE GCD(_, _)
GCD(a, b) == IF b = 0 THEN a ELSE GCD(b, a % b)

Rat(a, b) ==
    LET g == GCD(Abs(a), Abs(b))
        s == IF b < 0 THEN -1 ELSE 1
    IN [num |-> s * (a \div g), den |-> s * (b \div g)]

Int2Rat(k) == [num |-> k, den |-> 1]

RMul(x, y) ==
    LET g1 == GCD(Abs(x.num), y.den)
        g2 == GCD(Abs(y.num), x.den)
    IN IF x.num = 0 \/ y.num = 0 THEN Int2Rat(0)
       ELSE [num |-> (x.num \div g1) * (y.num \div g2),
             den |-> (x.den \div g2) * (y.den \div g1)]

RInv(x) == IF x.num < 0 THEN [num |-> -x.den, den |-> -x.num]
           ELSE [num |-> x.den, den |-> x.num]
RDiv(x, y) == RMul(x, RInv(y))
RAdd(x, y) == Rat(x.num * y.den + y.num * x.den, x.den * y.den)
RNeg(x) == [num |-> -x.num, den |-> x.den]
RAbs(x) == [num |-> Abs(x.num), den |-> x.den]
RGt(x, y) == x.num * y.den > y.num * x.den

\* scipy.constants.c, metres per second
c == 299792458
\* numpy.pi
pi == [num |-> 22, den |-> 7]
\* the literal 1e6 of get_susceptibility
Mega == 1000000

(***************************************************************************)
(* Outcome of a call: a returned value, or a raised exception with the     *)
(* line that raised it.  trace lists the methods entered, warned tells     *)
(* whether warnings.warn was called.                                       *)
(***************************************************************************)
Return(v, w, tr) ==
    [kind |-> "return", value |-> v, exc |-> "", msg |-> "", line |-> 0,
     warned |-> w, trace |-> tr]
Raise(e, m, l, tr) ==
    [kind |-> "raise", value |-> <<>>, exc |-> e, msg |-> m, line |-> l,
     warned |-> FALSE, trace |-> tr]

NoAttribute(f) == "'Solution' object has no attribute '" \o f \o "'"

\* repr of a list of str
RECURSIVE ReprItems(_)
ReprItems(names) ==
    IF names = <<>> THEN ""
    ELSE IF Len(names) = 1 THEN "'" \o names[1] \o "'"
    ELSE "'" \o names[1] \o "', " \o ReprItems(Tail(names))
ReprList(names) == "[" \o ReprItems(names) \o "]"

\* str() of a float holding an integral value
FloatStr(k) == ToString(k) \o ".0"

(***************************************************************************)
(* Solution._variables_defined                                             *)
(***************************************************************************)
NotDefinedMsg(undef_vars) ==
    "Required parameters not defined: " \o ReprList(undef_vars)
        \o "\nPlease define in Sensor and redo calculation."

\* the for loop: self[var] raises KeyError for a missing key
RECURSIVE UndefVars(_, _, _)
UndefVars(self, var_names, undef_vars) ==
    IF var_names = <<>> THEN [kind |-> "done", undef_vars |-> undef_vars, var |-> ""]
    ELSE IF ~HasKey(self, Head(var_names))
    THEN [kind |-> "KeyError", undef_vars |-> undef_vars, var |-> Head(var_names)]
    ELSE UndefVars(self, Tail(var_names),
                   IF GetItem(self, Head(var_names)) = None
                   THEN Append(undef_vars, Head(var_names))
                   ELSE undef_vars)

variables_defined(self, var_names, tr) ==
    LET r == UndefVars(self, var_names, <<>>)
        tr1 == Append(tr, "_variables_defined")
    IN IF r.kind = "KeyError" THEN Raise("KeyError", "'" \o r.var \o "'", 313, tr1)
       ELSE IF Len(r.undef_vars) > 0
       THEN Raise("AttributeError", NotDefinedMsg(r.undef_vars), 317, tr1)
       ELSE Return(None, FALSE, tr1)

(***************************************************************************)
(* numpy operations on the arrays of the heap.  An array of shape (K, m)   *)
(* is a sequence of K rows of m numbers.                                   *)
(***************************************************************************)
LastDim(a) == Len(a[1])

\* numpy.sqrt of a perfect square
Sqrt(k) == CHOOSE r \in 0..k : r * r = k

\* ndarray.take(indices=idx, axis=-1) accepts -m <= idx < m
TakeInRange(a, idx) == -LastDim(a) <= idx /\ idx < LastDim(a)
Take(a, idx) ==
    [k \in 1..Len(a) |-> a[k][IF idx < 0 THEN LastDim(a) + idx + 1 ELSE idx + 1]]

\* position in the last axis of the entry of row i, column j of the n x n
\* matrix whose first entry is dropped (positions count from 1)
Slot(n, i, j) == i * n + j

RECURSIVE SumDiag(_, _, _)
SumDiag(row, n, i) == IF i = 0 THEN 0 ELSE row[Slot(n, i, i)] + SumDiag(row, n, i - 1)

\* sensor_utils.get_rho_ij: real parts are stored above the diagonal,
\* imaginary parts below, rho_ji = conj(rho_ij), rho_00 = 1 - other populations
get_rho_ij(a, i, j) ==
    LET n == Sqrt(LastDim(a) + 1)
        elem(row) ==
            IF i > j THEN [re |-> Int2Rat(row[Slot(n, j, i)]), im |-> Int2Rat(row[Slot(n, i, j)])]
            ELSE IF i < j THEN [re |-> Int2Rat(row[Slot(n, i, j)]), im |-> Int2Rat(-row[Slot(n, j, i)])]
            ELSE IF i = 0 THEN [re |-> Int2Rat(1 - SumDiag(row, n, n - 1)), im |-> Int2Rat(0)]
            ELSE [re |-> Int2Rat(row[Slot(n, i, i)]), im |-> Int2Rat(0)]
    IN [k \in 1..Len(a) |-> elem(a[k])]

\* array * scalar, array / scalar on complex arrays
CScale(z, r) == [k \in 1..Len(z) |-> [re |-> RMul(z[k].re, r), im |-> RMul(z[k].im, r)]]
CDivide(z, r) == [k \in 1..Len(z) |-> [re |-> RDiv(z[k].re, r), im |-> RDiv(z[k].im, r)]]

\* numpy.exp is left uninterpreted
Exp(x) == [exp |-> x]

(***************************************************************************)
(* The methods of Solution.  h is the heap, tr the methods entered so far. *)
(***************************************************************************)
\* Solution.rho_ij
rho_ij(self, h, i, j, tr) ==
    LET tr1 == Append(tr, "rho_ij")
    IN IF ~HasAttr(self, "rho") THEN Raise("AttributeError", NoAttribute("rho"), 101, tr1)
       ELSE IF GetAttr(self, "rho").t # "ndarray"
       THEN Raise("AttributeError", "'NoneType' object has no attribute 'shape'", 101, tr1)
       ELSE Return(get_rho_ij(h[GetAttr(self, "rho").ref], i, j), FALSE, tr1)

\* the message of line 140
NoElementMsg(basis_size) ==
    "No element with given index for " \o FloatStr(basis_size) \o "-level system"

\* Solution.get_solution_element
get_solution_element(self, h, idx, tr) ==
    LET tr1 == Append(tr, "get_solution_element")
    IN IF ~HasAttr(self, "rho") THEN Raise("AttributeError", NoAttribute("rho"), 136, tr1)
       ELSE IF GetAttr(self, "rho").t # "ndarray"
       THEN Raise("AttributeError", "'NoneType' object has no attribute 'shape'", 136, tr1)
       ELSE LET rho == h[GetAttr(self, "rho").ref]
                basis_size == Sqrt(LastDim(rho) + 1)
            IN IF TakeInRange(rho, idx)
               THEN Return(Take(rho, idx), FALSE, tr1)
               ELSE Raise("IndexError", NoElementMsg(basis_size), 140, tr1)

\* a guard of get_susceptibility that leaves probe_freq out
SusceptibilityRequiredNoFreq == <<"probe_rabi", "kappa">>
\* the fields the guard of get_susceptibility checks
SusceptibilityRequired == <<"probe_rabi", "kappa", "probe_freq">>

\* Solution.get_susceptibility
get_susceptibility(self, h, tr) ==
    LET tr0 == Append(tr, "get_susceptibility")
        g == variables_defined(self, SusceptibilityRequired, tr0)
    IN IF g.kind = "raise" THEN g
       ELSE IF ~HasAttr(self, "probe_rabi")
       THEN Raise("AttributeError", NoAttribute("probe_rabi"), 171, g.trace)
       ELSE IF GetAttr(self, "probe_rabi").t # "float"
       THEN Raise("TypeError", "unsupported operand type(s) for *: 'NoneType' and 'float'", 171, g.trace)
       ELSE IF ~HasAttr(self, "kappa")
       THEN Raise("AttributeError", NoAttribute("kappa"), 172, g.trace)
       ELSE IF ~HasAttr(self, "probe_freq")
       THEN Raise("AttributeError", NoAttribute("probe_freq"), 173, g.trace)
       ELSE IF ~HasAttr(self, "probe_tuple")
       THEN Raise("AttributeError", NoAttribute("probe_tuple"), 176, g.trace)
       ELSE IF GetAttr(self, "probe_tuple").t # "tuple"
       THEN Raise("TypeError", "'NoneType' object is not subscriptable", 176, g.trace)
       ELSE LET probe_rabi == RMul(Int2Rat(GetAttr(self, "probe_rabi").n), Int2Rat(Mega))
                kappa == GetAttr(self, "kappa")
                probe_freq == GetAttr(self, "probe_freq")
                ij == GetAttr(self, "probe_tuple").ij
                r == rho_ij(self, h, ij[2], ij[1], g.trace)
            IN IF r.kind = "raise" THEN r
               ELSE IF kappa.t # "float"
               THEN Raise("TypeError", "unsupported operand type(s) for *: 'NoneType' and 'complex'", 179, r.trace)
               ELSE IF probe_freq.t # "float"
               THEN Raise("TypeError", "unsupported operand type(s) for *: 'NoneType' and 'float'", 179, r.trace)
               ELSE Return(CDivide(CScale(CScale(CScale(r.value, Int2Rat(2)), Int2Rat(c)),
                                          Int2Rat(kappa.n)),
                                   RMul(Int2Rat(probe_freq.n), RDiv(probe_rabi, Int2Rat(2)))),
                           FALSE, r.trace)

\* the fields the guard of get_OD checks
ODRequired == <<"probe_freq", "cell_length">>

\* a threshold test that also fires at exactly 1.0
AnyExceedsOrEquals(OD) == \E k \in 1..Len(OD) : ~RGt(Int2Rat(1), OD[k])
\* np.any(OD > 1.0)
AnyExceeds(OD) == \E k \in 1..Len(OD) : RGt(OD[k], Int2Rat(1))

\* Solution.get_OD
get_OD(self, h, tr) ==
    LET tr0 == Append(tr, "get_OD")
        g == variables_defined(self, ODRequired, tr0)
    IN IF g.kind = "raise" THEN g
       ELSE IF ~HasAttr(self, "probe_freq")
       THEN Raise("AttributeError", NoAttribute("probe_freq"), 218, g.trace)
       ELSE IF GetAttr(self, "probe_freq").t # "float"
       THEN Raise("TypeError", "unsupported operand type(s) for /: 'NoneType' and 'float'", 218, g.trace)
       ELSE LET two_pi == RMul(Int2Rat(2), pi)
                probe_wavelength ==
                    RAbs(RDiv(Int2Rat(c), RDiv(Int2Rat(GetAttr(self, "probe_freq").n), two_pi)))
                probe_wavevector == RDiv(two_pi, probe_wavelength)
                s == get_susceptibility(self, h, g.trace)
            IN IF s.kind = "raise" THEN s
               ELSE IF ~HasAttr(self, "cell_length")
               THEN Raise("AttributeError", NoAttribute("cell_length"), 220, s.trace)
               ELSE IF GetAttr(self, "cell_length").t # "float"
               THEN Raise("TypeError", "unsupported operand type(s) for *: 'float' and 'NoneType'", 220, s.trace)
               ELSE LET OD == [k \in 1..Len(s.value) |->
                                 RMul(RMul(s.value[k].im, Int2Rat(GetAttr(self, "cell_length").n)),
                                      probe_wavevector)]
                    IN Return(OD, AnyExceeds(OD), s.trace)

\* a transmission that forgets the sign of the exponent
TransmissionNoMinus(OD) == [k \in 1..Len(OD) |-> Exp(OD[k])]
\* np.exp(-OD)
Transmission(OD) == [k \in 1..Len(OD) |-> Exp(RNeg(OD[k]))]

\* Solution.get_transmission_coef
get_transmission_coef(self, h, tr) ==
    LET od == get_OD(self, h, Append(tr, "get_transmission_coef"))
    IN IF od.kind = "raise" THEN od
       ELSE Return(Transmission(od.value), od.warned, od.trace)

\* the fields the guard of get_phase_shift checks
PhaseShiftRequired == <<"probe_rabi", "kappa", "cell_length">>

\* Solution.get_phase_shift
get_phase_shift(self, h, tr) ==
    LET tr0 == Append(tr, "get_phase_shift")
        g == variables_defined(self, PhaseShiftRequired, tr0)
    IN IF g.kind = "raise" THEN g
       ELSE LET susc == get_susceptibility(self, h, g.trace)
            IN IF susc.kind = "raise" THEN susc
               ELSE IF ~HasAttr(self, "probe_freq")
               THEN Raise("AttributeError", NoAttribute("probe_freq"), 285, susc.trace)
               ELSE IF GetAttr(self, "probe_freq").t # "float"
               THEN Raise("TypeError", "unsupported operand type(s) for /: 'float' and 'NoneType'", 285, susc.trace)
               ELSE IF ~HasAttr(self, "cell_length")
               THEN Raise("AttributeError", NoAttribute("cell_length"), 287, susc.trace)
               ELSE IF GetAttr(self, "cell_length").t # "float"
               THEN Raise("TypeError", "unsupported operand type(s) for *: 'float' and 'NoneType'", 287, susc.trace)
               ELSE LET two_pi == RMul(Int2Rat(2), pi)
                        wavelength == RDiv(RMul(two_pi, Int2Rat(c)),
                                           Int2Rat(GetAttr(self, "probe_freq").n))
                        wavevector == RDiv(two_pi, wavelength)
                        phaseshift ==
                            [k \in 1..Len(susc.value) |->
                               RMul(RMul(RAdd(Int2Rat(1), RDiv(susc.value[k].re, Int2Rat(2))),
                                         Int2Rat(GetAttr(self, "cell_length").n)),
                                    wavevector)]
                    IN Return(phaseshift, FALSE, susc.trace)

(***************************************************************************)
(* State: the containers, the heap of arrays, and the outcome of the call  *)
(* under observation.  A behaviour is a sequence of store operations       *)
(* followed by one observed method call.                                   *)
(***************************************************************************)
NoCall == [op |-> "", self |-> "", idx |-> 0, res |-> <<>>]

\* rho of shape (2, 3) for a two-level system, and of shape (1, n*n - 1) beyond
RhoChoices ==
    { <<(<<1, 0, 0>>), (<<1, 1, 0>>)>>,
      <<(<<1, 1, 0>>), (<<1, 2, 0>>)>>,
      <<(<<0, 3, 1>>), (<<1, 0, 0>>)>> }
    \cup { <<[i \in 1..(n * n - 1) |-> i % 3]>> : n \in 3..MaxBasis }

\* the keyword arguments the solver may pass to the constructor
Kwargs ==
    { [f \in Fields |->
         CASE f = "rho" -> NdArray("C")
           [] f = "kappa" -> ka
           [] f = "probe_rabi" -> pr
           [] f = "probe_freq" -> pf
           [] f = "cell_length" -> cl
           [] f = "probe_tuple" -> pt
           [] OTHER -> Absent] :
      ka \in {Absent, None, Num(1)},
      pr \in {Absent, None, Num(1), Num(2)},
      pf \in {Absent, None, Num(1), Num(2)},
      cl \in {Absent, None, Num(250000)},
      pt \in {Absent, None, Tuple(<<0, 1>>)} }

\* a solve of a Sensor: no experimental parameter is defined but, possibly, kappa
SensorKwargs ==
    { k \in Kwargs : \A f \in {"probe_rabi", "probe_freq", "cell_length", "probe_tuple"} :
                        k[f] = None }

Construct(kwargs, rho) ==
    /\ store = [o \in Containers |-> IF o = "C" THEN Solution(kwargs) ELSE NoObject]
    /\ heap = [r \in Refs |-> IF r = "C" THEN rho ELSE Free]
    /\ out = NoCall

Init == \E kwargs \in Kwargs, rho \in RhoChoices : Construct(kwargs, rho)

InitStore == \E kwargs \in SensorKwargs, rho \in RhoChoices : Construct(kwargs, rho)

Exists(o) == store[o] # NoObject

\* D = C.copy()
CallCopy ==
    /\ out = NoCall
    /\ ~Exists("D")
    /\ store' = [store EXCEPT !["D"] = copy(store["C"])]
    /\ UNCHANGED <<heap, out>>

\* D = C.deepcopy()
CallDeepcopy ==
    /\ out = NoCall
    /\ ~Exists("D")
    /\ store' = [store EXCEPT !["D"] = deepcopy(store["C"], "D")]
    /\ heap' = DeepHeap(heap, store["C"], "D")
    /\ UNCHANGED out

\* o.f = v
SetAttr(o, f, v) ==
    /\ out = NoCall
    /\ Exists(o)
    /\ store' = [store EXCEPT ![o] = SetAttrObj(store[o], f, v)]
    /\ UNCHANGED <<heap, out>>

\* o[f] = v
SetItem(o, f, v) ==
    /\ out = NoCall
    /\ Exists(o)
    /\ store' = [store EXCEPT ![o] = SetItemObj(store[o], f, v)]
    /\ UNCHANGED <<heap, out>>

\* the value of field f of o seen through a view, "key" or "attr"
View(o, view, f) == IF view = "key" THEN GetItem(store[o], f) ELSE GetAttr(store[o], f)

\* o["rho"][k, i] = v, or o.rho[k, i] = v: an in-place write into the array
SetElement(o, view, k, i, v) ==
    /\ out = NoCall
    /\ Exists(o)
    /\ View(o, view, "rho").t = "ndarray"
    /\ k \in 1..Len(heap[View(o, view, "rho").ref])
    /\ heap' = [heap EXCEPT ![View(o, view, "rho").ref][k][i] = v]
    /\ UNCHANGED <<store, out>>

\* the record kept of the observed call
Observed(o, op, idx, res) == [op |-> op, self |-> o, idx |-> idx, res |-> res]

\* o.get_solution_element(idx)
CallGetSolutionElement(o, idx) ==
    /\ out = NoCall
    /\ Exists(o)
    /\ out' = Observed(o, "get_solution_element", idx,
                       get_solution_element(store[o], heap, idx, <<>>))
    /\ UNCHANGED <<store, heap>>

\* o.get_susceptibility()
CallGetSusceptibility(o) ==
    /\ out = NoCall
    /\ Exists(o)
    /\ out' = Observed(o, "get_susceptibility", 0, get_susceptibility(store[o], heap, <<>>))
    /\ UNCHANGED <<store, heap>>

\* o.get_OD()
CallGetOD(o) ==
    /\ out = NoCall
    /\ Exists(o)
    /\ out' = Observed(o, "get_OD", 0, get_OD(store[o], heap, <<>>))
    /\ UNCHANGED <<store, heap>>

\* o.get_transmission_coef()
CallGetTransmissionCoef(o) ==
    /\ out = NoCall
    /\ Exists(o)
    /\ out' = Observed(o, "get_transmission_coef", 0,
                       get_transmission_coef(store[o], heap, <<>>))
    /\ UNCHANGED <<store, heap>>

\* o.get_phase_shift()
CallGetPhaseShift(o) ==
    /\ out = NoCall
    /\ Exists(o)
    /\ out' = Observed(o, "get_phase_shift", 0, get_phase_shift(store[o], heap, <<>>))
    /\ UNCHANGED <<store, heap>>

\* the values and fields written in the store behaviours
StoreFields == {"kappa", "note"}
StoreValues == {None, Num(1)}
ElementValues == {0, 1}

\* store behaviours: assignments through both views, copies, in-place writes
Next ==
    \/ CallCopy
    \/ CallDeepcopy
    \/ \E o \in Containers, f \in StoreFields, v \in StoreValues : SetAttr(o, f, v)
    \/ \E o \in Containers, f \in StoreFields, v \in StoreValues : SetItem(o, f, v)
    \/ \E o \in Containers, view \in {"key", "attr"}, k \in 1..2, v \in ElementValues :
          SetElement(o, view, k, 1, v)

Spec == InitStore /\ [][Next]_vars

\* the largest last axis, and the indices tried on it
MaxDim == MaxBasis * MaxBasis - 1
Indices == (-(MaxDim + Over))..(MaxDim + Over - 1)

\* derived quantities: a container as built, or a copy of it, possibly with
\* probe_freq reassigned, then one method call
NextCalc ==
    \/ CallCopy
    \/ CallDeepcopy
    \/ \E o \in Containers, v \in {None, Num(1)} : SetAttr(o, "probe_freq", v)
    \/ \E o \in Containers, v \in {None, Num(1)} : SetItem(o, "probe_freq", v)
    \/ \E o \in Containers, idx \in Indices : CallGetSolutionElement(o, idx)
    \/ \E o \in Containers : CallGetSusceptibility(o)
    \/ \E o \in Containers : CallGetOD(o)
    \/ \E o \in Containers : CallGetTransmissionCoef(o)
    \/ \E o \in Containers : CallGetPhaseShift(o)

SpecCalc == Init /\ [][NextCalc]_vars

(***************************************************************************)
(* Properties.                                                             *)
(***************************************************************************)
\* the container the observed call was made on, and its fields by key
Self == store[out.self]
Defined(self, f) == HasKey(self, f) /\ GetItem(self, f) # None
IsNone(self, f) == HasKey(self, f) /\ GetItem(self, f) = None

\* the subsequence of names whose key holds None
RECURSIVE NoneAmong(_, _)
NoneAmong(self, names) ==
    IF names = <<>> THEN <<>>
    ELSE IF IsNone(self, Head(names))
    THEN <<Head(names)>> \o NoneAmong(self, Tail(names))
    ELSE NoneAmong(self, Tail(names))

\* C1: on the container built by the constructor, after any assignments made
\* through either view, every field name is present in both views or in
\* neither, and both views hold the same value.
C1_KeyAttrAgree ==
    \A f \in Fields :
        /\ HasKey(store["C"], f) <=> HasAttr(store["C"], f)
        /\ GetItem(store["C"], f) = GetAttr(store["C"], f)

\* a name not given at construction has been assigned and is seen by both views
C1_Witness ==
    /\ store["C"].by = "Solution"
    /\ HasKey(store["C"], "note")
    /\ HasAttr(store["C"], "note")
    /\ GetAttr(store["C"], "kappa") = None

\* the array field f of container o refers to
ArrayOf(h, o, f) == h[GetItem(store[o], f).ref]

\* C2: an in-place write into the array of a deepcopy leaves the array of the
\* original as it was; an in-place write into the array of a shallow copy
\* changes the array of the original, which is the same array; rebinding a
\* field of the copy leaves the original and every array as they were.
C2_CopyIndependence ==
    [][ /\ ( /\ \E view \in {"key", "attr"}, k \in 1..2, v \in ElementValues :
                   SetElement("D", view, k, 1, v)
             /\ store["D"].by = "deepcopy" )
           => ArrayOf(heap', "C", "rho") = ArrayOf(heap, "C", "rho")
        /\ ( /\ \E view \in {"key", "attr"}, k \in 1..2, v \in ElementValues :
                   SetElement("D", view, k, 1, v)
             /\ store["D"].by = "copy" )
           => /\ ArrayOf(heap', "C", "rho") # ArrayOf(heap, "C", "rho")
              /\ ArrayOf(heap', "C", "rho") = ArrayOf(heap', "D", "rho")
        /\ ( \E f \in StoreFields, v \in StoreValues :
                   SetAttr("D", f, v) \/ SetItem("D", f, v) )
           => /\ store'["C"] = store["C"]
              /\ heap' = heap
      ]_vars

\* the array of a deepcopy has been written in place and differs from the original's
C2_Witness ==
    /\ Exists("D")
    /\ store["D"].by = "deepcopy"
    /\ heap["D"] # heap["C"]

\* C3: on a copy, every field is present in both views with the same value
C3_CopyKeyAttrAgree ==
    Exists("D") =>
        \A f \in Fields :
            /\ HasKey(store["D"], f) <=> HasAttr(store["D"], f)
            /\ GetItem(store["D"], f) = GetAttr(store["D"], f)

\* C4: on the container as built, get_solution_element(idx) returns the slice
\* for idx in 0..m-1 and, for idx >= m, raises IndexError with a message that
\* reports the integer round(sqrt(m + 1)).
C4_IndexErrorReportsInteger ==
    (out.op = "get_solution_element" /\ out.self = "C" /\ out.idx >= 0) =>
        LET rho == ArrayOf(heap, "C", "rho")
            m == LastDim(rho)
        IN IF out.idx < m
           THEN /\ out.res.kind = "return"
                /\ out.res.value = [k \in 1..Len(rho) |-> rho[k][out.idx + 1]]
           ELSE /\ out.res.kind = "raise"
                /\ out.res.exc = "IndexError"
                /\ out.res.msg = "No element with given index for "
                                    \o ToString(Sqrt(m + 1)) \o "-level system"

\* C5: on the container as built with probe_rabi, kappa and probe_freq all
\* supplied, get_susceptibility() raises the error listing exactly those that
\* are None when there is one, and returns a value otherwise.
C5_SusceptibilityPrecondition ==
    ( /\ out.op = "get_susceptibility"
      /\ out.self = "C"
      /\ \A i \in 1..Len(SusceptibilityRequired) : HasKey(Self, SusceptibilityRequired[i]) )
    => IF NoneAmong(Self, SusceptibilityRequired) # <<>>
       THEN /\ out.res.kind = "raise"
            /\ out.res.exc = "AttributeError"
            /\ out.res.msg = NotDefinedMsg(NoneAmong(Self, SusceptibilityRequired))
       ELSE out.res.kind = "return"

\* the four fields get_OD needs
ODNeeds == <<"probe_freq", "cell_length", "probe_rabi", "kappa">>

\* the orderings of the entries of a sequence without repetitions
Orderings(names) ==
    { p \in [1..Len(names) -> {names[i] : i \in 1..Len(names)}] :
        \A i, j \in 1..Len(names) : i # j => p[i] # p[j] }

\* C6: on the container as built with the four fields supplied, get_OD() and
\* get_transmission_coef() called with some of them None raise one error
\* whose message lists every None field.
C6_AllMissingListed ==
    ( /\ out.op \in {"get_OD", "get_transmission_coef"}
      /\ out.self = "C"
      /\ \A i \in 1..Len(ODNeeds) : HasKey(Self, ODNeeds[i])
      /\ NoneAmong(Self, ODNeeds) # <<>> )
    => /\ out.res.kind = "raise"
       /\ out.res.exc = "AttributeError"
       /\ \E p \in Orderings(NoneAmong(Self, ODNeeds)) : out.res.msg = NotDefinedMsg(p)

\* the subsequence of names whose key is missing or holds None
RECURSIVE UnsetAmong(_, _)
UnsetAmong(self, names) ==
    IF names = <<>> THEN <<>>
    ELSE IF ~Defined(self, Head(names))
    THEN <<Head(names)>> \o UnsetAmong(self, Tail(names))
    ELSE UnsetAmong(self, Tail(names))

\* C7: on the container as built without one of probe_rabi, kappa, probe_freq
\* among its fields, get_susceptibility() raises the same error as when the
\* field is None, naming the field.
C7_UnsuppliedIsNone ==
    ( /\ out.op = "get_susceptibility"
      /\ out.self = "C"
      /\ \E i \in 1..Len(SusceptibilityRequired) : ~HasKey(Self, SusceptibilityRequired[i]) )
    => /\ out.res.kind = "raise"
       /\ out.res.exc = "AttributeError"
       /\ out.res.msg = NotDefinedMsg(UnsetAmong(Self, SusceptibilityRequired))

\* attribute f of self reads as a value of type t
AttrIs(self, f, t) == HasAttr(self, f) /\ GetAttr(self, f).t = t

\* every field get_OD reads is defined, by key for the guards and by
\* attribute for the formulas
ODInputsDefined(self) ==
    /\ \A i \in 1..Len(ODNeeds) : Defined(self, ODNeeds[i]) /\ AttrIs(self, ODNeeds[i], "float")
    /\ AttrIs(self, "probe_tuple", "tuple")
    /\ AttrIs(self, "rho", "ndarray")

\* the optical depth in closed form, 4 kappa Im(rho_probe) L / (1e6 probe_rabi)
\* for a positive probe_freq and a probe tuple (lower, upper), one value per
\* row of rho
ClosedFormOD(self, h) ==
    LET rho == h[GetAttr(self, "rho").ref]
        n == Sqrt(LastDim(rho) + 1)
        ij == GetAttr(self, "probe_tuple").ij
    IN [k \in 1..Len(rho) |->
          Rat(4 * GetAttr(self, "kappa").n * rho[k][Slot(n, ij[2], ij[1])]
                * GetAttr(self, "cell_length").n,
              Mega * GetAttr(self, "probe_rabi").n)]

\* C8: get_OD() warns exactly when some element of the optical depth is
\* strictly greater than 1; with or without the warning it returns the
\* optical depth, whenever the fields it reads are defined; a call that
\* raises has not warned.
C8_ODWarning ==
    out.op = "get_OD" =>
        /\ ODInputsDefined(Self) =>
              /\ out.res.kind = "return"
              /\ out.res.value = ClosedFormOD(Self, heap)
        /\ out.res.kind = "return" =>
              (out.res.warned <=>
                  \E k \in 1..Len(out.res.value) :
                      out.res.value[k].num > out.res.value[k].den)
        /\ out.res.kind = "raise" => ~out.res.warned

\* get_OD() has warned and returned, one element above 1 and one not
C8_Witness ==
    /\ out.op = "get_OD"
    /\ out.res.kind = "return"
    /\ out.res.warned
    /\ \E k \in 1..Len(out.res.value) : out.res.value[k] = Int2Rat(1)

\* C9: get_transmission_coef() raises the error get_OD() raises on the same
\* container, warns exactly when get_OD() warns, and otherwise returns
\* exp(-OD) of every element of what get_OD() returns.
C9_TransmissionInherits ==
    out.op = "get_transmission_coef" =>
        LET od == get_OD(Self, heap, <<>>)
        IN /\ out.res.kind = od.kind
           /\ out.res.warned = od.warned
           /\ od.kind = "raise" =>
                 /\ out.res.exc = od.exc
                 /\ out.res.msg = od.msg
                 /\ out.res.line = od.line
           /\ od.kind = "return" =>
                 /\ Len(out.res.value) = Len(od.value)
                 /\ \A k \in 1..Len(od.value) :
                       out.res.value[k] = Exp([num |-> -od.value[k].num,
                                               den |-> od.value[k].den])

\* get_transmission_coef() has returned with the warning of get_OD()
C9_Witness ==
    /\ out.op = "get_transmission_coef"
    /\ out.res.kind = "return"
    /\ out.res.warned
    /\ \E k \in 1..Len(out.res.value) : out.res.value[k] = Exp(Int2Rat(-2))

\* C10: get_phase_shift() never evaluates line 285 with probe_freq undefined;
\* with probe_rabi, kappa and cell_length defined and probe_freq None it
\* raises the missing-parameter error naming probe_freq from the guard of
\* get_susceptibility; with cell_length None it raises in its own guard,
\* before get_susceptibility is entered.
C10_PhaseShiftGuards ==
    out.op = "get_phase_shift" =>
        /\ ~(out.res.kind = "raise" /\ out.res.line = 285)
        /\ out.res.kind = "return" => AttrIs(Self, "probe_freq", "float")
        /\ ( /\ \A i \in 1..Len(PhaseShiftRequired) : Defined(Self, PhaseShiftRequired[i])
             /\ IsNone(Self, "probe_freq") )
           => /\ out.res.kind = "raise"
              /\ out.res.exc = "AttributeError"
              /\ out.res.msg = NotDefinedMsg(<<"probe_freq">>)
              /\ out.res.trace = <<"get_phase_shift", "_variables_defined",
                                   "get_susceptibility", "_variables_defined">>
        /\ IsNone(Self, "cell_length")
           => /\ out.res.kind = "raise"
              /\ out.res.trace = <<"get_phase_shift", "_variables_defined">>

\* get_phase_shift() has been stopped by the guard of get_susceptibility
C10_Witness ==
    /\ out.op = "get_phase_shift"
    /\ out.res.kind = "raise"
    /\ out.res.msg = NotDefinedMsg(<<"probe_freq">>)
    /\ Len(out.res.trace) = 4

====
